---- MODULE Spec2Model ----
(***************************************************************************)
(* Blackjack room server: the RoomManager of backend/app/main.py over the  *)
(* Game / Player classes of backend/logic_game.py.                         *)
(*                                                                         *)
(* A card is its index in the list create_deck builds,                     *)
(* [Card(suit, rank) for suit in Suit for rank in Rank].  random.shuffle   *)
(* returns one of a bounded family of permutations (Shuffle); uuid4 tokens *)
(* are drawn from the bounded pools RoomIds and PlayerIds, so a token may  *)
(* repeat.                                                                 *)
(***************************************************************************)
EXTENDS Integers, Sequences, FiniteSets, TLC

VARIABLES
    rooms,      \* RoomManager.rooms : the dict room_id -> Room
    reply,      \* outcome of the last manager call that returned
    lock,       \* RoomManager.lock : the thread holding it, or Free
    pc,         \* per worker thread: its position inside the call it runs
    call,       \* per worker thread: the call it runs and the call's locals
    bench       \* a Player or Game of logic_game.py used on its own, outside any room

vars == <<rooms, reply, lock, pc, call, bench>>

----------------------------------------------------------------------------
(* Bounds of the model *)

\* max_players offered to create_room ranges over 1..MaxSeats (code: 1..8)
MaxSeats == 2
\* number of permutations random.shuffle may return
MaxShuffles == 12
\* number of distinct room tokens _new_room_id may return
MaxRoomIds == 1
\* number of distinct player tokens _new_player_id may return
MaxPlayerIds == 2
\* worker threads serving calls concurrently
MaxThreads == 2
\* number of ranks offered to the bench when it builds hands card by card
BenchRanks == 5
\* number of ranks offered to the bench when it compares two whole hands
EvalRanks == 4
\* suits the score and evaluation benches take the other ranks from
BenchSuits == 2

----------------------------------------------------------------------------
(* Cards: enum.py, and Card of logic_game.py *)

Suits == <<"Hearts", "Diamonds", "Clubs", "Spades">>

Ranks == <<"2", "3", "4", "5", "6", "7", "8", "9", "10", "J", "Q", "K", "A">>

NumRanks == Len(Ranks)

NumCards == Len(Suits) * Len(Ranks)

\* the deck list before shuffling: card k is Card(CardSuit(k), CardRank(k))
Cards == 0..(NumCards - 1)

CardRank(c) == Ranks[(c % NumRanks) + 1]

CardSuit(c) == Suits[(c \div NumRanks) + 1]

\* int(card.rank.value) for the number cards
RankInt(r) ==
    CASE r = "2" -> 2 [] r = "3" -> 3 [] r = "4" -> 4
      [] r = "5" -> 5 [] r = "6" -> 6 [] r = "7" -> 7
      [] r = "8" -> 8 [] r = "9" -> 9 [] r = "10" -> 10

\* RANK_TO_ASSET_NAME.get(self.rank, self.rank.value)
RankToAssetName(r) ==
    CASE r = "A" -> "ace" [] r = "J" -> "jack"
      [] r = "Q" -> "queen" [] r = "K" -> "king"
      [] OTHER -> r

\* self.suit.value.lower()
SuitLower(s) ==
    CASE s = "Hearts" -> "hearts" [] s = "Diamonds" -> "diamonds"
      [] s = "Clubs" -> "clubs" [] s = "Spades" -> "spades"

\* Card._image_filename
image_filename(c) == <<RankToAssetName(CardRank(c)), "_of_", SuitLower(CardSuit(c)), ".png">>

----------------------------------------------------------------------------
(* Player: logic_game.py *)

NewPlayer(nm, role) ==
    [name |-> nm, hand |-> <<>>, score |-> 0, is_dealer |-> role, result |-> ""]

RECURSIVE base_score(_)
base_score(h) ==
    IF h = <<>> THEN 0
    ELSE LET r == CardRank(Head(h)) IN
         (IF r \in {"J", "Q", "K"} THEN 10
          ELSE IF r = "A" THEN 0
          ELSE RankInt(r)) + base_score(Tail(h))

RECURSIVE count_aces(_)
count_aces(h) ==
    IF h = <<>> THEN 0
    ELSE (IF CardRank(Head(h)) = "A" THEN 1 ELSE 0) + count_aces(Tail(h))

AceValues == {1, 10, 11}

\* generate_scores trying only 1 and 11 for an Ace
RECURSIVE generate_scores_1_11(_, _, _)
generate_scores_1_11(current_total, ace_index, num_aces) ==
    IF ace_index = num_aces THEN {current_total}
    ELSE UNION {generate_scores_1_11(current_total + ace_value, ace_index + 1, num_aces)
                    : ace_value \in {1, 11}}

\* the totals generate_scores appends to possible_scores
RECURSIVE generate_scores(_, _, _)
generate_scores(current_total, ace_index, num_aces) ==
    IF ace_index = num_aces THEN {current_total}
    ELSE UNION {generate_scores(current_total + ace_value, ace_index + 1, num_aces)
                    : ace_value \in AceValues}

SetMax(S) == CHOOSE x \in S : \A y \in S : y <= x

SetMin(S) == CHOOSE x \in S : \A y \in S : x <= y

DealerThreshold == 15

PlayerThreshold == 16

BustLimit == 21

Threshold(role) == IF role THEN DealerThreshold ELSE PlayerThreshold

\* calculate_score taking the least of the valid scores
calculate_score_least_valid(h, role) ==
    LET possible_scores == generate_scores(base_score(h), 0, count_aces(h))
        threshold == Threshold(role)
        valid_scores == {t \in possible_scores : threshold <= t /\ t <= BustLimit}
        fallback_scores == {t \in possible_scores : t <= BustLimit}
    IN  IF valid_scores # {} THEN SetMin(valid_scores)
        ELSE IF fallback_scores # {} THEN SetMax(fallback_scores)
        ELSE SetMin(possible_scores)

calculate_score(h, role) ==
    LET possible_scores == generate_scores(base_score(h), 0, count_aces(h))
        threshold == Threshold(role)
        valid_scores == {t \in possible_scores : threshold <= t /\ t <= BustLimit}
        fallback_scores == {t \in possible_scores : t <= BustLimit}
    IN  IF valid_scores # {} THEN SetMax(valid_scores)
        ELSE IF fallback_scores # {} THEN SetMax(fallback_scores)
        ELSE SetMin(possible_scores)

add_card(p, c) ==
    [p EXCEPT !.hand = Append(p.hand, c),
              !.score = calculate_score(Append(p.hand, c), p.is_dealer)]

----------------------------------------------------------------------------
(* The bounded shuffles *)

\* For each permutation the model lets random.shuffle return: the ranks of
\* the cards that come off the deck first, in the order they are popped.
\* The suits follow the enum order, and the rest of the deck follows in the
\* order of the unshuffled list.
Tops ==
    << <<"A", "A", "A", "A", "K", "K">>,
       <<"K", "A", "A", "K", "5", "5">>,
       <<"A", "A", "A", "K", "9", "K">>,
       <<"5", "A", "K", "A", "K", "9">>,
       <<"K", "K", "K", "9", "K", "5">>,
       <<"2", "K", "2", "9", "3", "3", "4">>,
       <<"K", "5", "9", "9", "K", "K">>,
       <<"K", "2", "9", "2", "3", "3", "4">>,
       <<"A", "A", "5", "K", "K", "5", "K", "K">>,
       <<"A", "A", "K", "A", "9", "5">>,
       <<"A", "2", "K", "A", "2", "9", "A", "A", "J">>,
       <<"10", "Q", "5", "A", "J", "6", "A", "7">>,
       <<"5", "5", "9", "5", "5", "8", "2", "2", "3", "6", "7">> >>

RECURSIVE TopCards(_, _)
TopCards(ranks, used) ==
    IF ranks = <<>> THEN <<>>
    ELSE LET c == SetMin({k \in Cards \ used : CardRank(k) = Head(ranks)})
         IN  <<c>> \o TopCards(Tail(ranks), used \cup {c})

RECURSIVE Ascending(_)
Ascending(S) ==
    IF S = {} THEN <<>> ELSE <<SetMin(S)>> \o Ascending(S \ {SetMin(S)})

RECURSIVE Reverse(_)
Reverse(q) == IF q = <<>> THEN <<>> ELSE Append(Reverse(Tail(q)), Head(q))

SeqRange(q) == {q[i] : i \in 1..Len(q)}

\* the k-th permutation: a deck list whose pops (from the end) give Tops[k] first
Shuffle(k) ==
    LET top == TopCards(Tops[k], {})
    IN  Reverse(top \o Ascending(Cards \ SeqRange(top)))

\* every list create_deck can return
create_deck == {Shuffle(k) : k \in 1..MaxShuffles}

----------------------------------------------------------------------------
(* Game: logic_game.py *)

\* Game.__init__ with the deck create_deck returned
NewGame(n, shuffled) ==
    [n_players |-> n, players |-> <<>>,
     dealer |-> NewPlayer("Dealer", TRUE), deck |-> shuffled]

\* f"Player {i}" for the seats a room can have
PlayerName(i) == <<"Player 1", "Player 2", "Player 3", "Player 4">>[i]

\* the players list after the first k appends of add_players
RECURSIVE players_upto(_)
players_upto(k) ==
    IF k = 0 THEN <<>> ELSE Append(players_upto(k - 1), NewPlayer(PlayerName(k), FALSE))

add_players(g) == [g EXCEPT !.players = players_upto(g.n_players)]

\* draw_card: the decks the pop can be taken from (a fresh one when empty)
DrawDecks(g) == IF g.deck = <<>> THEN create_deck ELSE {g.deck}

\* GiveFrom reading the last card of the list without removing it
GiveFrom_keeps_card(g, who, d) ==
    LET c == d[Len(d)]
    IN  IF who = 0
        THEN [g EXCEPT !.deck = d, !.dealer = add_card(g.dealer, c)]
        ELSE [g EXCEPT !.deck = d, !.players[who] = add_card(g.players[who], c)]

\* player.add_card(self.draw_card()) popping from list d; who = 0 is the dealer
GiveFrom(g, who, d) ==
    LET c == d[Len(d)]
        left == SubSeq(d, 1, Len(d) - 1)
    IN  IF who = 0
        THEN [g EXCEPT !.deck = left, !.dealer = add_card(g.dealer, c)]
        ELSE [g EXCEPT !.deck = left, !.players[who] = add_card(g.players[who], c)]

GiveAny(g, who) == {GiveFrom(g, who, d) : d \in DrawDecks(g)}

\* recipients of one pass of deal_initial_cards: every player, then the dealer
RECURSIVE PlayersPass(_)
PlayersPass(n) == IF n = 0 THEN <<>> ELSE Append(PlayersPass(n - 1), n)

DealPass(n) == Append(PlayersPass(n), 0)

RECURSIVE DealTo(_, _)
DealTo(games, recipients) ==
    IF recipients = <<>> THEN games
    ELSE DealTo(UNION {GiveAny(each, Head(recipients)) : each \in games}, Tail(recipients))

\* every game deal_initial_cards can leave behind
deal_initial_cards(g) ==
    DealTo({g}, DealPass(g.n_players) \o DealPass(g.n_players))

\* is_blackjack without the test of the hand's length
is_blackjack_any_length(p) == p.score = 21

is_blackjack(p) == Len(p.hand) = 2 /\ p.score = 21

is_golden_blackjack(p) ==
    Len(p.hand) = 2 /\ \A i \in 1..Len(p.hand) : CardRank(p.hand[i]) = "A"

HandLimit == 5

is_spirit(p) == Len(p.hand) = HandLimit /\ p.score <= BustLimit

\* evaluate_winner without the golden rungs
evaluate_winner_no_golden(p, d) ==
    LET player_blackjack == is_blackjack(p)
        dealer_blackjack == is_blackjack(d)
    IN  IF player_blackjack /\ dealer_blackjack THEN "Draw (both Blackjack)"
        ELSE IF dealer_blackjack THEN "Dealer wins with Blackjack"
        ELSE IF player_blackjack THEN "Player wins with Blackjack"
        ELSE IF is_spirit(p) /\ is_spirit(d) THEN "Draw (both Di Linh)"
        ELSE IF is_spirit(p) THEN "Player wins with Di Linh"
        ELSE IF is_spirit(d) THEN "Dealer wins with Di Linh"
        ELSE IF p.score > BustLimit THEN "Player busted - Dealer wins"
        ELSE IF d.score > BustLimit THEN "Dealer busted - Player wins"
        ELSE IF p.score > d.score THEN "Player wins"
        ELSE IF p.score < d.score THEN "Dealer wins"
        ELSE "Draw"

\* evaluate_winner comparing busts and scores before the 5-card rungs
evaluate_winner_scores_first(p, d) ==
    LET player_golden == is_golden_blackjack(p)
        dealer_golden == is_golden_blackjack(d)
        player_blackjack == is_blackjack(p)
        dealer_blackjack == is_blackjack(d)
    IN  IF player_golden /\ dealer_golden THEN "Draw (both Golden Blackjack)"
        ELSE IF player_golden THEN "Player wins with Golden Blackjack"
        ELSE IF dealer_golden THEN "Dealer wins with Golden Blackjack"
        ELSE IF player_blackjack /\ dealer_blackjack THEN "Draw (both Blackjack)"
        ELSE IF dealer_blackjack THEN "Dealer wins with Blackjack"
        ELSE IF player_blackjack THEN "Player wins with Blackjack"
        ELSE IF p.score > BustLimit THEN "Player busted - Dealer wins"
        ELSE IF d.score > BustLimit THEN "Dealer busted - Player wins"
        ELSE IF p.score > d.score THEN "Player wins"
        ELSE IF p.score < d.score THEN "Dealer wins"
        ELSE IF is_spirit(p) /\ is_spirit(d) THEN "Draw (both Di Linh)"
        ELSE IF is_spirit(p) THEN "Player wins with Di Linh"
        ELSE IF is_spirit(d) THEN "Dealer wins with Di Linh"
        ELSE "Draw"

\* evaluate_winner with the blackjack rung placed above the golden rung
evaluate_winner_blackjack_first(p, d) ==
    LET player_golden == is_golden_blackjack(p)
        dealer_golden == is_golden_blackjack(d)
        player_blackjack == is_blackjack(p)
        dealer_blackjack == is_blackjack(d)
    IN  IF player_blackjack /\ dealer_blackjack THEN "Draw (both Blackjack)"
        ELSE IF dealer_blackjack THEN "Dealer wins with Blackjack"
        ELSE IF player_blackjack THEN "Player wins with Blackjack"
        ELSE IF player_golden /\ dealer_golden THEN "Draw (both Golden Blackjack)"
        ELSE IF player_golden THEN "Player wins with Golden Blackjack"
        ELSE IF dealer_golden THEN "Dealer wins with Golden Blackjack"
        ELSE IF is_spirit(p) /\ is_spirit(d) THEN "Draw (both Di Linh)"
        ELSE IF is_spirit(p) THEN "Player wins with Di Linh"
        ELSE IF is_spirit(d) THEN "Dealer wins with Di Linh"
        ELSE IF p.score > BustLimit THEN "Player busted - Dealer wins"
        ELSE IF d.score > BustLimit THEN "Dealer busted - Player wins"
        ELSE IF p.score > d.score THEN "Player wins"
        ELSE IF p.score < d.score THEN "Dealer wins"
        ELSE "Draw"

evaluate_winner(p, d) ==
    LET player_golden == is_golden_blackjack(p)
        dealer_golden == is_golden_blackjack(d)
        player_blackjack == is_blackjack(p)
        dealer_blackjack == is_blackjack(d)
    IN  IF player_golden /\ dealer_golden THEN "Draw (both Golden Blackjack)"
        ELSE IF player_golden THEN "Player wins with Golden Blackjack"
        ELSE IF dealer_golden THEN "Dealer wins with Golden Blackjack"
        ELSE IF player_blackjack /\ dealer_blackjack THEN "Draw (both Blackjack)"
        ELSE IF dealer_blackjack THEN "Dealer wins with Blackjack"
        ELSE IF player_blackjack THEN "Player wins with Blackjack"
        ELSE IF is_spirit(p) /\ is_spirit(d) THEN "Draw (both Di Linh)"
        ELSE IF is_spirit(p) THEN "Player wins with Di Linh"
        ELSE IF is_spirit(d) THEN "Dealer wins with Di Linh"
        ELSE IF p.score > BustLimit THEN "Player busted - Dealer wins"
        ELSE IF d.score > BustLimit THEN "Dealer busted - Player wins"
        ELSE IF p.score > d.score THEN "Player wins"
        ELSE IF p.score < d.score THEN "Dealer wins"
        ELSE "Draw"

\* check_player for an index in range (the manager only passes seat indexes)
check_player(g, idx) ==
    [g EXCEPT !.players[idx].result = evaluate_winner(g.players[idx], g.dealer)]

----------------------------------------------------------------------------
(* Room, PlayerSeat and the RoomManager helpers: app/main.py *)

RoomIds == 1..MaxRoomIds

PlayerIds == 1..MaxPlayerIds

\* a player_id no seat can hold, and the absent (None) viewer
Stranger == 0

None == "None"

NewSeat(pid, nm) ==
    [player_id |-> pid, name |-> nm, stood |-> FALSE, resolved |-> FALSE, result |-> ""]

\* Optional[Game]: <<>> is None, <<g>> a game
NoGame == <<>>

NewRoom(rid, host, ss, cap) ==
    [room_id |-> rid, host_id |-> host, seats |-> ss, max_players |-> cap,
     phase |-> "waiting", current_player_index |-> 0, game |-> NoGame]

GameOf(room) == room.game[1]

SetGame(room, g) == [room EXCEPT !.game = <<g>>]

\* seat and participant indexes are 0-based, as in the code
SeatAt(room, idx) == room.seats[idx + 1]

PlayerAt(room, idx) == GameOf(room).players[idx + 1]

SeatIndexes(room) == 0..(Len(room.seats) - 1)

find_player_index(room, pid) ==
    LET found == {idx \in SeatIndexes(room) : SeatAt(room, idx).player_id = pid}
    IN  IF found = {} THEN -1 ELSE SetMin(found)

\* player_name.strip(), on the names the callers offer
NameInputs == {"ann", " bob "}

strip(nm) == IF nm = " bob " THEN "bob" ELSE nm

\* action.lower().strip(), on the literals the callers offer
ActionInputs == {"hit", "stand", " Stand ", "HIT", "double"}

lower_strip(action) ==
    CASE action = " Stand " -> "stand"
      [] action = "HIT" -> "hit"
      [] OTHER -> action

\* is_finished without the bust test
is_finished_no_bust(room, player_index) ==
    LET seat == SeatAt(room, player_index)
        p == PlayerAt(room, player_index)
    IN  seat.resolved \/ seat.stood \/ Len(p.hand) >= HandLimit

is_finished(room, player_index) ==
    LET seat == SeatAt(room, player_index)
        p == PlayerAt(room, player_index)
    IN  seat.resolved \/ seat.stood \/ p.score > BustLimit \/ Len(p.hand) >= HandLimit

\* move_to_next_playable taking the first seat whether or not it is finished
move_to_next_playable_any_seat(room) ==
    IF SeatIndexes(room) # {}
    THEN [room EXCEPT !.current_player_index = SetMin(SeatIndexes(room)), !.phase = "player_turns"]
    ELSE [room EXCEPT !.phase = "dealer_turn"]

move_to_next_playable(room) ==
    LET playable == {idx \in SeatIndexes(room) : ~is_finished(room, idx)}
    IN  IF playable # {}
        THEN [room EXCEPT !.current_player_index = SetMin(playable), !.phase = "player_turns"]
        ELSE [room EXCEPT !.phase = "dealer_turn"]

\* advance_after taking the next seat whether or not it is finished
advance_after_any(room, from_index) ==
    LET later == {idx \in SeatIndexes(room) : idx >= from_index + 1}
    IN  IF later # {}
        THEN [room EXCEPT !.current_player_index = SetMin(later)]
        ELSE move_to_next_playable(room)

advance_after(room, from_index) ==
    LET later == {idx \in SeatIndexes(room) : idx >= from_index + 1 /\ ~is_finished(room, idx)}
    IN  IF later # {}
        THEN [room EXCEPT !.current_player_index = SetMin(later)]
        ELSE move_to_next_playable(room)

\* seat.result = ...; seat.resolved = True
MarkResolved(room, idx, res) ==
    [room EXCEPT !.seats[idx + 1] = [room.seats[idx + 1] EXCEPT !.result = res,
                                                                 !.resolved = TRUE]]

\* one iteration of a loop that checks seat idx and snapshots its result
ResolveSeat(room, idx) ==
    LET checked == check_player(GameOf(room), idx + 1)
    IN  MarkResolved(SetGame(room, checked), idx, checked.players[idx + 1].result)

is_natural(p) == is_blackjack(p) \/ is_golden_blackjack(p)

RECURSIVE resolve_naturals_from(_, _)
resolve_naturals_from(room, idx) ==
    IF idx >= Len(room.seats) THEN room
    ELSE resolve_naturals_from(
             IF is_natural(PlayerAt(room, idx)) THEN ResolveSeat(room, idx) ELSE room,
             idx + 1)

\* A variant that stops after the first seat.
resolve_initial_naturals_first_seat(room) ==
    IF Len(room.seats) > 0 /\ is_natural(PlayerAt(room, 0)) THEN ResolveSeat(room, 0) ELSE room

resolve_initial_naturals(room) == resolve_naturals_from(room, 0)

\* dealer_draws letting the dealer take one card at most
dealer_draws_one_card(g) == Len(g.dealer.hand) < 3 /\ g.dealer.score < DealerThreshold

dealer_draws(g) == Len(g.dealer.hand) < HandLimit /\ g.dealer.score < DealerThreshold

\* every game the dealer's drawing loop can leave behind
RECURSIVE dealer_loop(_)
dealer_loop(g) ==
    IF dealer_draws(g)
    THEN UNION {dealer_loop(drawn) : drawn \in GiveAny(g, 0)}
    ELSE {g}

RECURSIVE finalize_from(_, _)
finalize_from(room, idx) ==
    IF idx >= Len(room.seats) THEN room
    ELSE finalize_from(ResolveSeat(room, idx), idx + 1)

run_dealer_and_finalize(room) ==
    {[finalize_from(SetGame(room, played), 0) EXCEPT !.phase = "results"]
        : played \in dealer_loop(GameOf(room))}

----------------------------------------------------------------------------
(* Replies of the manager calls *)

\* the arguments of a call; an argument the call does not take is NoArg
NoArg == -2

Request(rid, pid, act) == [room_id |-> rid, player_id |-> pid, action |-> act]

Ok(o, req, b) == [op |-> o, request |-> req, status |-> 200, detail |-> "", body |-> b]

\* raise HTTPException(status_code, detail)
Raise(o, req, code, msg) ==
    [op |-> o, request |-> req, status |-> code, detail |-> msg, body |-> <<>>]

\* no response: nothing was raised, nothing returned yet
NoReply == [op |-> "none", request |-> Request(NoArg, NoArg, ""), status |-> 0,
            detail |-> "", body |-> <<>>]

Raised(rp) == rp.status # 0

Outcome(rs, rp) == [new_rooms |-> rs, response |-> rp]

Present(rs, rid) == rid \in DOMAIN rs

\* self.rooms[room_id] = room
Store(rs, rid, room) ==
    [r \in (DOMAIN rs) \cup {rid} |-> IF r = rid THEN room ELSE rs[r]]

----------------------------------------------------------------------------
(* RoomManager operations; each yields every outcome the call can have *)

create_room(rs, player_name, cap) ==
    {Outcome(Store(rs, rid,
                   NewRoom(rid, pid,
                           <<NewSeat(pid, strip(player_name))>>, cap)),
             Ok("create_room", Request(NoArg, NoArg, ""), [room_id |-> rid, player_id |-> pid]))
        : rid \in RoomIds, pid \in PlayerIds}

\* join_room appending the seat before it tests for a full room
join_room_append_first(rs, rid, player_name) ==
    IF ~Present(rs, rid)
    THEN {Outcome(rs, Raise("join_room", Request(rid, NoArg, ""), 404, "Room not found"))}
    ELSE LET room == rs[rid] IN
         IF room.phase # "waiting"
         THEN {Outcome(rs, Raise("join_room", Request(rid, NoArg, ""), 400, "Game already started"))}
         ELSE {Outcome(Store(rs, rid,
                             [room EXCEPT !.seats = Append(@, NewSeat(pid, strip(player_name)))]),
                       IF Len(room.seats) >= room.max_players
                       THEN Raise("join_room", Request(rid, NoArg, ""), 400, "Room is full")
                       ELSE Ok("join_room", Request(rid, NoArg, ""),
                               [room_id |-> rid, player_id |-> pid]))
                  : pid \in PlayerIds}

\* join_room_raises without the test of the phase
join_room_raises_any_phase(rs, rid) ==
    IF ~Present(rs, rid)
    THEN Raise("join_room", Request(rid, NoArg, ""), 404, "Room not found")
    ELSE IF Len(rs[rid].seats) >= rs[rid].max_players
    THEN Raise("join_room", Request(rid, NoArg, ""), 400, "Room is full")
    ELSE NoReply

\* join_room_raises without the test for a full room
join_room_raises_no_cap(rs, rid) ==
    IF ~Present(rs, rid)
    THEN Raise("join_room", Request(rid, NoArg, ""), 404, "Room not found")
    ELSE IF rs[rid].phase # "waiting"
    THEN Raise("join_room", Request(rid, NoArg, ""), 400, "Game already started")
    ELSE NoReply

\* the HTTPException join_room raises, NoReply when its checks pass
join_room_raises(rs, rid) ==
    IF ~Present(rs, rid)
    THEN Raise("join_room", Request(rid, NoArg, ""), 404, "Room not found")
    ELSE IF rs[rid].phase # "waiting"
    THEN Raise("join_room", Request(rid, NoArg, ""), 400, "Game already started")
    ELSE IF Len(rs[rid].seats) >= rs[rid].max_players
    THEN Raise("join_room", Request(rid, NoArg, ""), 400, "Room is full")
    ELSE NoReply

\* join_room after its checks: a new player id, the seat appended
join_room_seats(rs, rid, player_name) ==
    {Outcome(Store(rs, rid,
                   [rs[rid] EXCEPT !.seats = Append(rs[rid].seats,
                                                    NewSeat(pid, strip(player_name)))]),
             Ok("join_room", Request(rid, NoArg, ""), [room_id |-> rid, player_id |-> pid]))
        : pid \in PlayerIds}

join_room(rs, rid, player_name) ==
    IF Raised(join_room_raises(rs, rid))
    THEN {Outcome(rs, join_room_raises(rs, rid))}
    ELSE join_room_seats(rs, rid, player_name)

\* game.players[idx].name = seat.name for every seat
RECURSIVE copy_names_from(_, _, _)
copy_names_from(room, g, idx) ==
    IF idx >= Len(room.seats) THEN g
    ELSE copy_names_from(room,
                         [g EXCEPT !.players[idx + 1].name = room.seats[idx + 1].name],
                         idx + 1)

copy_names(room, g) == copy_names_from(room, g, 0)

RECURSIVE reset_seats_from(_, _)
reset_seats_from(room, idx) ==
    IF idx >= Len(room.seats) THEN room
    ELSE reset_seats_from([room EXCEPT !.seats[idx + 1].stood = FALSE,
                                       !.seats[idx + 1].resolved = FALSE,
                                       !.seats[idx + 1].result = ""],
                          idx + 1)

reset_seats(room) == reset_seats_from(room, 0)

\* start_game from room.game = game to the reset of the seats
start_open(room, g) ==
    reset_seats([SetGame(room, g) EXCEPT !.phase = "player_turns",
                                         !.current_player_index = 0])

\* start_settle without the shortcut for a dealer natural
start_settle_no_shortcut(room) ==
    LET moved == move_to_next_playable(resolve_initial_naturals(room))
    IN  IF moved.phase = "dealer_turn"
        THEN run_dealer_and_finalize(moved)
        ELSE {moved}

\* start_game from _resolve_initial_naturals to its return
start_settle(room) ==
    LET settled == resolve_initial_naturals(room)
    IN  IF is_natural(GameOf(settled).dealer)
        THEN run_dealer_and_finalize(settled)
        ELSE LET moved == move_to_next_playable(settled)
             IN  IF moved.phase = "dealer_turn"
                 THEN run_dealer_and_finalize(moved)
                 ELSE {moved}

\* the rooms start_game can have built when the seats have been reset
start_opened(room) ==
    {start_open(room, copy_names(room, dealt))
        : dealt \in UNION {deal_initial_cards(add_players(NewGame(Len(room.seats), shuffled)))
                              : shuffled \in create_deck}}

\* the rooms start_game can leave behind once its checks have passed
start_outcomes(room) == UNION {start_settle(opened) : opened \in start_opened(room)}

\* start_game without the host test
start_game_any_caller(rs, rid, pid) ==
    IF ~Present(rs, rid)
    THEN {Outcome(rs, Raise("start_game", Request(rid, pid, ""), 404, "Room not found"))}
    ELSE LET room == rs[rid] IN
         IF room.phase # "waiting"
         THEN {Outcome(rs, Raise("start_game", Request(rid, pid, ""), 400, "Game already started"))}
         ELSE {Outcome(Store(rs, rid, started), Ok("start_game", Request(rid, pid, ""), [ok |-> TRUE]))
                  : started \in start_outcomes(room)}

\* start_game_raises without the test of the phase
start_game_raises_any_phase(rs, rid, pid) ==
    IF ~Present(rs, rid)
    THEN Raise("start_game", Request(rid, pid, ""), 404, "Room not found")
    ELSE IF rs[rid].host_id # pid
    THEN Raise("start_game", Request(rid, pid, ""), 403, "Only host can start the game")
    ELSE NoReply

\* the HTTPException start_game raises, NoReply when its checks pass
start_game_raises(rs, rid, pid) ==
    IF ~Present(rs, rid)
    THEN Raise("start_game", Request(rid, pid, ""), 404, "Room not found")
    ELSE IF rs[rid].host_id # pid
    THEN Raise("start_game", Request(rid, pid, ""), 403, "Only host can start the game")
    ELSE IF rs[rid].phase # "waiting"
    THEN Raise("start_game", Request(rid, pid, ""), 400, "Game already started")
    ELSE NoReply

start_game(rs, rid, pid) ==
    IF Raised(start_game_raises(rs, rid, pid))
    THEN {Outcome(rs, start_game_raises(rs, rid, pid))}
    ELSE {Outcome(Store(rs, rid, started), Ok("start_game", Request(rid, pid, ""), [ok |-> TRUE]))
             : started \in start_outcomes(rs[rid])}

\* act with a stand that leaves the seat as it was
act_stand_ignored(room, idx, action) ==
    IF action = "hit"
    THEN {SetGame(room, hit) : hit \in GiveAny(GameOf(room), idx + 1)}
    ELSE {room}

\* player_action: the hit or the stand
act(room, idx, action) ==
    IF action = "hit"
    THEN {SetGame(room, hit) : hit \in GiveAny(GameOf(room), idx + 1)}
    ELSE {[room EXCEPT !.seats[idx + 1].stood = TRUE]}

\* settle_turn returning with the dealer's turn still to be played
settle_turn_dealer_pending(room, idx) ==
    {IF is_finished(room, idx) THEN advance_after(room, idx) ELSE room}

\* player_action from _is_finished to its return
settle_turn(room, idx) ==
    LET advanced == IF is_finished(room, idx) THEN advance_after(room, idx) ELSE room
    IN  IF advanced.phase = "dealer_turn" THEN run_dealer_and_finalize(advanced) ELSE {advanced}

\* player_action after its checks
apply_action(room, idx, action) ==
    UNION {settle_turn(acted, idx) : acted \in act(room, idx, action)}

\* player_action_raises without the test of whose turn it is
player_action_raises_any_turn(rs, rid, pid, action) ==
    IF ~Present(rs, rid)
    THEN Raise("player_action", Request(rid, pid, action), 404, "Room not found")
    ELSE IF rs[rid].phase # "player_turns"
    THEN Raise("player_action", Request(rid, pid, action), 400, "Not in player turns")
    ELSE IF find_player_index(rs[rid], pid) = -1
    THEN Raise("player_action", Request(rid, pid, action), 403, "Player not in room")
    ELSE IF SeatAt(rs[rid], find_player_index(rs[rid], pid)).resolved
    THEN Raise("player_action", Request(rid, pid, action), 400, "Player already resolved")
    ELSE IF lower_strip(action) \notin {"hit", "stand"}
    THEN Raise("player_action", Request(rid, pid, action), 400, "Action must be hit or stand")
    ELSE NoReply

\* the HTTPException player_action raises, NoReply when its checks pass
player_action_raises(rs, rid, pid, action) ==
    IF ~Present(rs, rid)
    THEN Raise("player_action", Request(rid, pid, action), 404, "Room not found")
    ELSE IF rs[rid].phase # "player_turns"
    THEN Raise("player_action", Request(rid, pid, action), 400, "Not in player turns")
    ELSE IF find_player_index(rs[rid], pid) = -1
    THEN Raise("player_action", Request(rid, pid, action), 403, "Player not in room")
    ELSE IF find_player_index(rs[rid], pid) # rs[rid].current_player_index
    THEN Raise("player_action", Request(rid, pid, action), 400, "Not your turn")
    ELSE IF SeatAt(rs[rid], find_player_index(rs[rid], pid)).resolved
    THEN Raise("player_action", Request(rid, pid, action), 400, "Player already resolved")
    ELSE IF lower_strip(action) \notin {"hit", "stand"}
    THEN Raise("player_action", Request(rid, pid, action), 400, "Action must be hit or stand")
    ELSE NoReply

player_action(rs, rid, pid, action) ==
    IF Raised(player_action_raises(rs, rid, pid, action))
    THEN {Outcome(rs, player_action_raises(rs, rid, pid, action))}
    ELSE {Outcome(Store(rs, rid, after), Ok("player_action", Request(rid, pid, action), [ok |-> TRUE]))
             : after \in apply_action(rs[rid], find_player_index(rs[rid], pid),
                                      lower_strip(action))}

\* the card dicts get_state builds for one hand
card_views(h, hide) ==
    [i \in 1..Len(h) |->
        IF hide THEN [hidden |-> TRUE]
        ELSE [hidden |-> FALSE, rank |-> CardRank(h[i]), suit |-> CardSuit(h[i]),
              image_url |-> <<"/assets/">> \o image_filename(h[i])]]

\* the absent viewer (player_id None)
NoViewer == -1

Viewers == PlayerIds \cup {Stranger, NoViewer}

\* the HTTPException get_state raises, NoReply when the room exists
get_state_raises(rs, rid, pid) ==
    IF ~Present(rs, rid)
    THEN Raise("get_state", Request(rid, pid, ""), 404, "Room not found")
    ELSE NoReply

\* hide_seat hiding every seat but the active one
hide_seat_resolved_too(room, idx) ==
    room.phase = "player_turns" /\ idx # room.current_player_index

\* hide, for the seat at idx of a started room
hide_seat(room, idx) ==
    /\ room.phase = "player_turns"
    /\ idx # room.current_player_index
    /\ ~SeatAt(room, idx).resolved

\* hide_dealer that never hides
hide_dealer_never(room) == FALSE

\* hide_dealer, for a started room
hide_dealer(room) == room.phase = "player_turns"

\* the RoomStateResponse get_state builds for a room and a viewer
get_state_view(room, pid) ==
    LET your_idx == IF pid # NoViewer THEN find_player_index(room, pid) ELSE -1
        your_index == IF your_idx < 0 THEN None ELSE your_idx
    IN  IF room.phase = "waiting"
        THEN [room_id |-> room.room_id,
              phase |-> room.phase,
              current_player_index |-> room.current_player_index,
              your_player_index |-> your_index,
              players |-> [i \in 1..Len(room.seats) |->
                              [name |-> room.seats[i].name, score |-> None, cards |-> <<>>,
                               stood |-> room.seats[i].stood,
                               resolved |-> room.seats[i].resolved]],
              dealer |-> [score |-> None, cards |-> <<>>],
              can_start |-> (pid = room.host_id),
              can_act |-> FALSE,
              results |-> <<>>]
        ELSE LET g == GameOf(room)
                 hide(idx) == hide_seat(room, idx)
             IN  [room_id |-> room.room_id,
                  phase |-> room.phase,
                  current_player_index |-> room.current_player_index,
                  your_player_index |-> your_index,
                  players |-> [i \in 1..Len(room.seats) |->
                                  [name |-> room.seats[i].name,
                                   score |-> IF hide(i - 1) THEN "?" ELSE g.players[i].score,
                                   cards |-> card_views(g.players[i].hand, hide(i - 1)),
                                   stood |-> room.seats[i].stood,
                                   resolved |-> room.seats[i].resolved,
                                   result |-> room.seats[i].result]],
                  dealer |-> [score |-> IF hide_dealer(room) THEN "?" ELSE g.dealer.score,
                              cards |-> card_views(g.dealer.hand, hide_dealer(room))],
                  can_start |-> FALSE,
                  can_act |-> (your_idx >= 0 /\ your_idx = room.current_player_index
                               /\ room.phase = "player_turns"),
                  results |-> IF room.phase = "results"
                              THEN [i \in 1..Len(room.seats) |->
                                       [name |-> room.seats[i].name,
                                        result |-> room.seats[i].result]]
                              ELSE <<>>]

\* get_state putting every seat's flags back to their defaults as it reads
get_state_resetting(rs, rid, pid) ==
    IF Raised(get_state_raises(rs, rid, pid))
    THEN {Outcome(rs, get_state_raises(rs, rid, pid))}
    ELSE {Outcome(Store(rs, rid, reset_seats(rs[rid])),
                  Ok("get_state", Request(rid, pid, ""), get_state_view(rs[rid], pid)))}

get_state(rs, rid, pid) ==
    IF Raised(get_state_raises(rs, rid, pid))
    THEN {Outcome(rs, get_state_raises(rs, rid, pid))}
    ELSE {Outcome(rs, Ok("get_state", Request(rid, pid, ""), get_state_view(rs[rid], pid)))}

----------------------------------------------------------------------------
(* The manager serving one call at a time (every call runs under self.lock) *)

Free == 0

Threads == 1..MaxThreads

EmptyRooms == [r \in {} |-> NewRoom(r, 0, <<>>, 0)]

\* a thread's call: its arguments, the room table when it took the lock, the
\* seat index it looked up, and the response it will return
NoCall == [op |-> "none", room_id |-> NoArg, player_id |-> NoArg, arg |-> "", cap |-> 0,
           idx |-> -1, seen |-> EmptyRooms, resp |-> NoReply]

NoBench == <<>>

Init ==
    /\ rooms = EmptyRooms
    /\ reply = NoReply
    /\ lock = Free
    /\ pc = [t \in Threads |-> "idle"]
    /\ call = [t \in Threads |-> NoCall]
    /\ bench = NoBench

Returns(outcomes) ==
    /\ \E out \in outcomes : rooms' = out.new_rooms /\ reply' = out.response
    /\ UNCHANGED <<lock, pc, call, bench>>

CreateRoom ==
    \E player_name \in NameInputs, cap \in 1..MaxSeats :
        Returns(create_room(rooms, player_name, cap))

JoinRoom ==
    \E rid \in RoomIds, player_name \in NameInputs :
        Returns(join_room(rooms, rid, player_name))

StartGame ==
    \E rid \in RoomIds, pid \in PlayerIds \cup {Stranger} :
        Returns(start_game(rooms, rid, pid))

PlayerAction ==
    \E rid \in RoomIds, pid \in PlayerIds \cup {Stranger}, action \in ActionInputs :
        Returns(player_action(rooms, rid, pid, action))

GetState ==
    \E rid \in RoomIds, pid \in Viewers :
        Returns(get_state(rooms, rid, pid))

Next == CreateRoom \/ JoinRoom \/ StartGame \/ PlayerAction \/ GetState

Spec == Init /\ [][Next]_vars

\* a step of PlayerAction in which the active player of room rid makes a call
\* that succeeds
TakesTurn(rid) ==
    /\ reply'.op = "player_action"
    /\ reply'.status = 200
    /\ reply'.request.room_id = rid

InTurns(rid) == Present(rooms, rid) /\ rooms[rid].phase = "player_turns"

\* Spec on the hypothesis that, in every room, the active player always
\* eventually acts: a room does not stay in player_turns for ever without
\* successful actions being made in it again and again
SpecLive ==
    /\ Spec
    /\ \A rid \in RoomIds : ([]<>~InTurns(rid)) \/ ([]<><<TakesTurn(rid)>>_vars)

----------------------------------------------------------------------------
(* Threads of the server calling the manager concurrently: every method body
   is one "with self.lock:" block.  A thread's arguments do not depend on the
   room table, so a thread waiting for the lock with its arguments chosen is
   modelled as a thread that chooses them when it gets the lock. *)

Call(o, rid, pid, a, n) == [NoCall EXCEPT !.op = o, !.room_id = rid, !.player_id = pid,
                                          !.arg = a, !.cap = n]

\* the names and action literals the threads send
ThreadNames == {"ann"}

ThreadActions == {"hit", "stand", "double"}

Calls ==
    {Call("create_room", NoArg, NoArg, player_name, cap)
        : player_name \in ThreadNames, cap \in 1..MaxSeats}
    \cup {Call("join_room", rid, NoArg, player_name, 0)
             : rid \in RoomIds, player_name \in ThreadNames}
    \cup {Call("start_game", rid, pid, "", 0)
             : rid \in RoomIds, pid \in PlayerIds \cup {Stranger}}
    \cup {Call("player_action", rid, pid, action, 0)
             : rid \in RoomIds, pid \in PlayerIds \cup {Stranger}, action \in ThreadActions}
    \cup {Call("get_state", rid, pid, "", 0) : rid \in RoomIds, pid \in Viewers}

\* Lock.acquire with the lock taken by anyone
can_acquire_held(l) == TRUE

\* Lock.acquire returns only when the lock is free
can_acquire(l) == l = Free

\* the whole method, run on room table rs
Whole(c, rs) ==
    CASE c.op = "create_room" -> create_room(rs, c.arg, c.cap)
      [] c.op = "join_room" -> join_room(rs, c.room_id, c.arg)
      [] c.op = "start_game" -> start_game(rs, c.room_id, c.player_id)
      [] c.op = "player_action" -> player_action(rs, c.room_id, c.player_id, c.arg)
      [] c.op = "get_state" -> get_state(rs, c.room_id, c.player_id)

\* the exception the method's checks raise on room table rs, NoReply when none
Raises(c, rs) ==
    CASE c.op = "create_room" -> NoReply
      [] c.op = "join_room" -> join_room_raises(rs, c.room_id)
      [] c.op = "start_game" -> start_game_raises(rs, c.room_id, c.player_id)
      [] c.op = "player_action" -> player_action_raises(rs, c.room_id, c.player_id, c.arg)
      [] c.op = "get_state" -> get_state_raises(rs, c.room_id, c.player_id)

Moves(t, to, c) ==
    /\ pc' = [pc EXCEPT ![t] = to]
    /\ call' = [call EXCEPT ![t] = c]

\* "with self.lock:" is entered
Enter(t) ==
    /\ pc[t] = "idle"
    /\ can_acquire(lock)
    /\ lock' = t
    /\ \E c \in Calls : Moves(t, "check", [c EXCEPT !.seen = rooms])
    /\ UNCHANGED <<rooms, reply, bench>>

\* the lookups and checks at the head of the method
Check(t) ==
    /\ pc[t] = "check"
    /\ IF Raised(Raises(call[t], rooms))
       THEN Moves(t, "exit", [call[t] EXCEPT !.resp = Raises(call[t], rooms)])
       ELSE Moves(t, "write",
                  [call[t] EXCEPT !.idx = IF call[t].op = "player_action"
                                         THEN find_player_index(rooms[call[t].room_id],
                                                                call[t].player_id)
                                         ELSE -1])
    /\ UNCHANGED <<rooms, reply, lock, bench>>

\* the method's first writes to the room (for get_state, its reads)
Write(t) ==
    /\ pc[t] = "write"
    /\ LET c == call[t] IN
       CASE c.op = "create_room" ->
               \E out \in create_room(rooms, c.arg, c.cap) :
                   rooms' = out.new_rooms /\ Moves(t, "exit", [c EXCEPT !.resp = out.response])
         [] c.op = "join_room" ->
               \E out \in join_room_seats(rooms, c.room_id, c.arg) :
                   rooms' = out.new_rooms /\ Moves(t, "exit", [c EXCEPT !.resp = out.response])
         [] c.op = "start_game" ->
               \E opened \in start_opened(rooms[c.room_id]) :
                   rooms' = Store(rooms, c.room_id, opened) /\ Moves(t, "settle", c)
         [] c.op = "player_action" ->
               \E acted \in act(rooms[c.room_id], c.idx, lower_strip(c.arg)) :
                   rooms' = Store(rooms, c.room_id, acted) /\ Moves(t, "settle", c)
         [] c.op = "get_state" ->
               \E out \in get_state(rooms, c.room_id, c.player_id) :
                   rooms' = rooms /\ Moves(t, "exit", [c EXCEPT !.resp = out.response])
    /\ UNCHANGED <<reply, lock, bench>>

\* the turn bookkeeping and the dealer's resolution that end start_game and
\* player_action
Settle(t) ==
    /\ pc[t] = "settle"
    /\ LET c == call[t] IN
       \E settled \in (IF c.op = "start_game"
                        THEN start_settle(rooms[c.room_id])
                        ELSE settle_turn(rooms[c.room_id], c.idx)) :
           /\ rooms' = Store(rooms, c.room_id, settled)
           /\ Moves(t, "exit",
                    [c EXCEPT !.resp = Ok(c.op, Request(c.room_id, c.player_id, c.arg),
                                          [ok |-> TRUE])])
    /\ UNCHANGED <<reply, lock, bench>>

\* the with block is left: the lock is released, the response goes out
Exit(t) ==
    /\ pc[t] = "exit"
    /\ lock' = Free
    /\ reply' = call[t].resp
    /\ Moves(t, "idle", NoCall)
    /\ UNCHANGED <<rooms, bench>>

NextConc == \E t \in Threads : Enter(t) \/ Check(t) \/ Write(t) \/ Settle(t) \/ Exit(t)

SpecConc == Init /\ [][NextConc]_vars

----------------------------------------------------------------------------
(* Benches for Player.calculate_score and Game.evaluate_winner *)

\* the order in which the benches take ranks into their card sets
BenchOrder == <<"A", "K", "2", "3", "5", "9", "10", "6", "4", "7", "8", "J", "Q">>

\* every Ace, and the first n other ranks of BenchOrder in the first BenchSuits suits
BenchCards(n) ==
    {c \in Cards : /\ \E i \in 1..n : BenchOrder[i] = CardRank(c)
                   /\ CardRank(c) = "A" \/ c \div NumRanks < BenchSuits}

Idle ==
    /\ rooms = EmptyRooms
    /\ reply = NoReply
    /\ lock = Free
    /\ pc = [t \in Threads |-> "idle"]
    /\ call = [t \in Threads |-> NoCall]

\* a participant of either role with an empty hand
InitScore == Idle /\ bench \in {NewPlayer(PlayerName(1), FALSE), NewPlayer("Dealer", TRUE)}

\* one more card of the deck is added to the hand
AddCard ==
    /\ Len(bench.hand) < HandLimit
    /\ \E c \in BenchCards(BenchRanks) \ SeqRange(bench.hand) : bench' = add_card(bench, c)
    /\ UNCHANGED <<rooms, reply, lock, pc, call>>

NextScore == AddCard

SpecScore == InitScore /\ [][NextScore]_vars

\* the participant after add_card of every card of S, in ascending order
RECURSIVE Holding(_, _)
Holding(p, S) ==
    IF S = {} THEN p ELSE Holding(add_card(p, SetMin(S)), S \ {SetMin(S)})

EvalHands == {S \in SUBSET BenchCards(EvalRanks) : Cardinality(S) \in 2..HandLimit}

\* a game of one player whose hands are any two disjoint hands of the deck
InitEval ==
    /\ Idle
    /\ \E ph \in EvalHands :
          \E dh \in {S \in EvalHands : S \cap ph = {}} :
             bench = [add_players(NewGame(1, <<>>))
                         EXCEPT !.players[1] = Holding(NewPlayer(PlayerName(1), FALSE), ph),
                                !.dealer = Holding(NewPlayer("Dealer", TRUE), dh)]

CheckPlayer ==
    /\ bench.players[1].result = ""
    /\ bench' = check_player(bench, 1)
    /\ UNCHANGED <<rooms, reply, lock, pc, call>>

NextEval == CheckPlayer

SpecEval == InitEval /\ [][NextEval]_vars

----------------------------------------------------------------------------
(* Properties *)

\* the room a reply is about
Asked == reply.request.room_id

AskedNext == reply'.request.room_id

Succeeded(o) == reply.op = o /\ reply.status = 200

SucceededNext(o) == reply'.op = o /\ reply'.status = 200

Started(room) == room.game # NoGame

\* a seat that is resolved, stood, busted or holding 5 cards
SeatDone(room, idx) ==
    \/ SeatAt(room, idx).resolved
    \/ SeatAt(room, idx).stood
    \/ PlayerAt(room, idx).score > BustLimit
    \/ Len(PlayerAt(room, idx).hand) >= HandLimit

\* a seat that has nothing left to play, read from the hands alone
SeatPlayedOut(room, idx) ==
    \/ SeatAt(room, idx).stood
    \/ PlayerAt(room, idx).score > BustLimit
    \/ Len(PlayerAt(room, idx).hand) >= HandLimit
    \/ is_natural(PlayerAt(room, idx))

TurnMoves(before, after) ==
    /\ after.current_player_index >= before.current_player_index
    /\ after.phase = "player_turns" => ~SeatDone(after, after.current_player_index)
    /\ after.current_player_index # before.current_player_index
          => /\ after.current_player_index > before.current_player_index
             /\ after.phase = "player_turns"
    /\ (before.phase = "player_turns" /\ after.phase # "player_turns")
          => /\ after.phase = "results"
             /\ \A idx \in SeatIndexes(after) : SeatPlayedOut(after, idx)

\* C1: every successful start_game or player_action leaves the turn index
\* where it was or on a strictly larger seat, the seat it points at while the
\* phase is player_turns is not resolved, stood, busted or holding 5 cards, and
\* the room leaves player_turns (for results) only when every seat has played out.
C1_TurnOrder ==
    [][(SucceededNext("start_game") \/ SucceededNext("player_action"))
          => TurnMoves(rooms[AskedNext], rooms'[AskedNext])]_vars

\* seat 0 has stood and the turn has moved on to seat 1
C1_Witness ==
    /\ Succeeded("player_action")
    /\ rooms[Asked].phase = "player_turns"
    /\ rooms[Asked].current_player_index = 1
    /\ SeatAt(rooms[Asked], 0).stood

\* C2: a join_room, start_game or player_action call that fails leaves the
\* room table, and so every room, seat, hand, score and deck, as it was.
C2_FailureChangesNothing ==
    [][(reply'.op \in {"join_room", "start_game", "player_action"} /\ reply'.status # 200)
          => rooms' = rooms]_vars

\* a join was refused by a full room that is still waiting
C2_Witness ==
    /\ reply.op = "join_room"
    /\ reply.detail = "Room is full"
    /\ rooms[Asked].phase = "waiting"
    /\ Len(rooms[Asked].seats) = rooms[Asked].max_players

\* C3: start_game on an existing room by a player_id other than its host_id
\* fails with 403, and a waiting room is still waiting, with no game, afterwards.
C3_NonHostCannotStart ==
    [][(/\ reply'.op = "start_game"
        /\ Present(rooms, AskedNext)
        /\ reply'.request.player_id # rooms[AskedNext].host_id)
          => /\ reply'.status = 403
             /\ Present(rooms', AskedNext)
             /\ rooms'[AskedNext].phase = rooms[AskedNext].phase
             /\ rooms'[AskedNext].game = rooms[AskedNext].game
             /\ rooms[AskedNext].phase = "waiting"
                   => /\ rooms'[AskedNext].phase = "waiting"
                      /\ rooms'[AskedNext].game = NoGame]_vars

\* a seated player who is not the host was refused
C3_Witness ==
    /\ reply.op = "start_game"
    /\ reply.status = 403
    /\ rooms[Asked].phase = "waiting"
    /\ find_player_index(rooms[Asked], reply.request.player_id) >= 1

Inside(t) == pc[t] # "idle"

\* at most one thread is inside a method body, and it holds the lock
MutualExclusion ==
    /\ \A t1, t2 \in Threads : (Inside(t1) /\ Inside(t2)) => t1 = t2
    /\ \A t \in Threads : Inside(t) <=> lock = t

Returning(t) == pc[t] = "exit" /\ pc'[t] = "idle"

\* a room between two calls: no dealer_turn, and the turn is on a playable seat
Settled(room) ==
    /\ room.phase # "dealer_turn"
    /\ room.phase = "player_turns" => ~SeatDone(room, room.current_player_index)

SeatsWithinCap(rs) == \A rid \in DOMAIN rs : Len(rs[rid].seats) <= rs[rid].max_players

\* C4: with threads calling concurrently, at most one is inside a method and
\* only it changes the room table; every call returns the response and leaves
\* the room table that the whole method produces from the table it found when
\* it took the lock; a get_state never reads a room with a hit or a deal whose
\* turn bookkeeping or dealer resolution is pending; no room gets more seats
\* than max_players and a start succeeds only on a room found waiting.
C4_CallsAreAtomic ==
    [][/\ MutualExclusion'
       /\ SeatsWithinCap(rooms')
       /\ rooms' # rooms
             => \E t \in Threads : lock = t /\ pc[t] \in {"write", "settle"} /\ pc'[t] # pc[t]
       /\ \A t \in Threads :
             Returning(t)
                => /\ Outcome(rooms', reply') \in Whole(call[t], call[t].seen)
                   /\ \A rid \in DOMAIN call[t].seen : Settled(call[t].seen[rid])
                   /\ (call[t].op = "start_game" /\ reply'.status = 200)
                         => call[t].seen[call[t].room_id].phase = "waiting"]_vars

\* a thread holds the lock between its hit, which finished the seat, and the
\* turn bookkeeping
C4_Witness ==
    \E t \in Threads :
        /\ pc[t] = "settle"
        /\ lock = t
        /\ call[t].op = "player_action"
        /\ lower_strip(call[t].arg) = "hit"
        /\ rooms[call[t].room_id].phase = "player_turns"
        /\ SeatDone(rooms[call[t].room_id], rooms[call[t].room_id].current_player_index)

\* the two cards a participant was dealt are a blackjack or two Aces
DealtNatural(p) ==
    /\ Len(p.hand) >= 2
    /\ \/ calculate_score(SubSeq(p.hand, 1, 2), p.is_dealer) = BustLimit
       \/ CardRank(p.hand[1]) = "A" /\ CardRank(p.hand[2]) = "A"

DealtGolden(p) ==
    Len(p.hand) >= 2 /\ CardRank(p.hand[1]) = "A" /\ CardRank(p.hand[2]) = "A"

\* C5: a started room whose dealer was dealt a natural is in phase results,
\* every seat is resolved with a result, the dealer holds exactly 2 cards, and
\* no player_action has succeeded in it.
C5_DealerNaturalEndsRound ==
    \A rid \in DOMAIN rooms :
        (Started(rooms[rid]) /\ DealtNatural(GameOf(rooms[rid]).dealer))
           => /\ rooms[rid].phase = "results"
              /\ \A idx \in SeatIndexes(rooms[rid]) :
                    /\ SeatAt(rooms[rid], idx).resolved
                    /\ SeatAt(rooms[rid], idx).result # ""
              /\ Len(GameOf(rooms[rid]).dealer.hand) = 2
              /\ ~(Succeeded("player_action") /\ Asked = rid)

\* a round of two seats was started and the dealer was dealt a natural
C5_Witness ==
    /\ Succeeded("start_game")
    /\ Len(rooms[Asked].seats) = 2
    /\ DealtNatural(GameOf(rooms[Asked]).dealer)
    /\ rooms[Asked].phase = "results"

OneSeatDealerGolden(room) ==
    Started(room) /\ Len(room.seats) = 1 /\ DealtGolden(GameOf(room).dealer)

NoTurnTaken(room, idx) ==
    ~SeatAt(room, idx).stood /\ Len(PlayerAt(room, idx).hand) = 2

\* C6 as claimed: in a room of one seat whose dealer was dealt two Aces the
\* round is in results, no turn was taken, and the seat's result is
\* "Dealer wins with Golden Blackjack".
C6_AsClaimed ==
    \A rid \in DOMAIN rooms :
        OneSeatDealerGolden(rooms[rid])
           => /\ rooms[rid].phase = "results"
              /\ NoTurnTaken(rooms[rid], 0)
              /\ SeatAt(rooms[rid], 0).result = "Dealer wins with Golden Blackjack"

\* C6 amended: in a room of one seat whose dealer was dealt two Aces the round
\* is in results, no turn was taken, and the seat's result is "Dealer wins with
\* Golden Blackjack" unless the player too was dealt two Aces, and then
\* "Draw (both Golden Blackjack)".
C6_DealerGolden ==
    \A rid \in DOMAIN rooms :
        OneSeatDealerGolden(rooms[rid])
           => /\ rooms[rid].phase = "results"
              /\ NoTurnTaken(rooms[rid], 0)
              /\ SeatAt(rooms[rid], 0).result =
                    IF DealtGolden(PlayerAt(rooms[rid], 0))
                    THEN "Draw (both Golden Blackjack)"
                    ELSE "Dealer wins with Golden Blackjack"

\* one seat holding a blackjack lost to the dealer's two Aces
C6_Witness ==
    /\ Succeeded("start_game")
    /\ OneSeatDealerGolden(rooms[Asked])
    /\ is_blackjack(PlayerAt(rooms[Asked], 0))
    /\ ~DealtGolden(PlayerAt(rooms[Asked], 0))
    /\ SeatAt(rooms[Asked], 0).result = "Dealer wins with Golden Blackjack"

\* every outcome of a hit or stand by player pid on room rid is a failure
ActionsRefused(rs, rid, pid) ==
    \A action \in ActionInputs :
        \A out \in player_action(rs, rid, pid, action) : out.response.status # 200

\* C7: a successful hit that leaves the acting seat with a score of 22 or more
\* ends the seat's turn in the same call: the room is in results, or in
\* player_turns on a strictly larger seat, and every further hit or stand by
\* that player fails.
C7_BustEndsTurn ==
    [][(/\ SucceededNext("player_action")
        /\ lower_strip(reply'.request.action) = "hit"
        /\ PlayerAt(rooms'[AskedNext], rooms[AskedNext].current_player_index).score > BustLimit)
          => /\ \/ rooms'[AskedNext].phase = "results"
                \/ /\ rooms'[AskedNext].phase = "player_turns"
                   /\ rooms'[AskedNext].current_player_index
                         > rooms[AskedNext].current_player_index
             /\ ActionsRefused(rooms', AskedNext, reply'.request.player_id)]_vars

\* seat 0 hit, busted, and the turn is on seat 1
C7_Witness ==
    /\ Succeeded("player_action")
    /\ lower_strip(reply.request.action) = "hit"
    /\ rooms[Asked].phase = "player_turns"
    /\ rooms[Asked].current_player_index = 1
    /\ PlayerAt(rooms[Asked], 0).score > BustLimit

\* the hand is exactly two Aces
TwoAces(p) ==
    Len(p.hand) = 2 /\ CardRank(p.hand[1]) = "A" /\ CardRank(p.hand[2]) = "A"

\* the hand is a 2-card 21 that is not two Aces
TwoCard21(p) == Len(p.hand) = 2 /\ p.score = 21 /\ ~TwoAces(p)

Evaluated == bench.players[1].result # ""

\* C8: two Aces score 21 as a 2-card hand, yet against a 2-card 21 that is not
\* two Aces the side holding them wins with Golden Blackjack, and two Aces
\* against two Aces is a draw.
C8_GoldenBeforeBlackjack ==
    Evaluated =>
        LET p == bench.players[1]
            d == bench.dealer
        IN  /\ TwoAces(p) => p.score = 21
            /\ TwoAces(d) => d.score = 21
            /\ (TwoAces(p) /\ TwoCard21(d)) => p.result = "Player wins with Golden Blackjack"
            /\ (TwoAces(d) /\ TwoCard21(p)) => p.result = "Dealer wins with Golden Blackjack"
            /\ (TwoAces(p) /\ TwoAces(d)) => p.result = "Draw (both Golden Blackjack)"

\* the player's two Aces were evaluated against an Ace and a King
C8_Witness ==
    /\ Evaluated
    /\ TwoAces(bench.players[1])
    /\ TwoCard21(bench.dealer)
    /\ bench.players[1].result = "Player wins with Golden Blackjack"

FiveCards(p) == Len(p.hand) = 5 /\ p.score <= 21

\* C9: a player holding exactly 5 cards with score <= 21, against a dealer hand
\* that is neither two Aces, a 2-card 21 nor 5 cards with score <= 21, gets
\* "Player wins with Di Linh" whatever the two scores are.
C9_SpiritBeforeScores ==
    Evaluated =>
        LET p == bench.players[1]
            d == bench.dealer
        IN  (/\ FiveCards(p)
             /\ ~TwoAces(d)
             /\ ~(Len(d.hand) = 2 /\ d.score = 21)
             /\ ~FiveCards(d))
               => p.result = "Player wins with Di Linh"

\* a 5-card hand won against a dealer with the higher score, 21 or less
C9_Witness ==
    /\ Evaluated
    /\ FiveCards(bench.players[1])
    /\ bench.dealer.score > bench.players[1].score
    /\ bench.dealer.score <= 21
    /\ bench.players[1].result = "Player wins with Di Linh"

\* the plain value of a card that is not an Ace
CardValue(c) ==
    IF CardRank(c) \in {"J", "Q", "K"} THEN 10 ELSE RankInt(CardRank(c))

RECURSIVE SumOver(_, _)
SumOver(f, n) == IF n = 0 THEN 0 ELSE f[n] + SumOver(f, n - 1)

\* the total of hand h for every assignment of 1, 10 or 11 to each of its Aces
RefTotals(h) ==
    LET aces == {i \in 1..Len(h) : CardRank(h[i]) = "A"}
    IN  {SumOver([i \in 1..Len(h) |-> IF i \in aces THEN f[i] ELSE CardValue(h[i])], Len(h))
            : f \in [aces -> {1, 10, 11}]}

RefScore(h, role) ==
    LET floor == IF role THEN 15 ELSE 16
        inside == {t \in RefTotals(h) : floor <= t /\ t <= 21}
        unbusted == {t \in RefTotals(h) : t <= 21}
    IN  IF inside # {} THEN SetMax(inside)
        ELSE IF unbusted # {} THEN SetMax(unbusted)
        ELSE SetMin(RefTotals(h))

\* C10: the score stored after add_card is the reference rule's over every
\* assignment of 1, 10 or 11 to the Aces of the hand, for either role and every
\* hand of up to 5 cards; a hand without Aces scores the sum of its card values.
C10_ScoreIsReference ==
    Len(bench.hand) >= 1 =>
        /\ bench.score = RefScore(bench.hand, bench.is_dealer)
        /\ Cardinality(RefTotals(bench.hand)) = 1 => bench.score = SetMax(RefTotals(bench.hand))

\* a 5-card hand with two Aces that only counts to 21 or less with an Ace as 10
C10_Witness ==
    /\ Len(bench.hand) = 5
    /\ Cardinality({i \in 1..5 : CardRank(bench.hand[i]) = "A"}) = 2
    /\ bench.score = 21
    /\ \E i \in 1..5 : CardRank(bench.hand[i]) = "5"

\* the hands of the first k players, one after the other
RECURSIVE HandsUpto(_, _)
HandsUpto(g, k) == IF k = 0 THEN <<>> ELSE HandsUpto(g, k - 1) \o g.players[k].hand

\* every card of the game: the deck, the dealer's hand, the players' hands
AllCards(g) == g.deck \o g.dealer.hand \o HandsUpto(g, Len(g.players))

\* C11: in every started room the deck, the dealer's hand and the players'
\* hands together hold each of the 52 cards exactly once, and every
\* participant holds at least the 2 cards of the deal.
C11_CardsPartitioned ==
    \A rid \in DOMAIN rooms :
        Started(rooms[rid])
           => /\ Len(AllCards(GameOf(rooms[rid]))) = NumCards
              /\ SeqRange(AllCards(GameOf(rooms[rid]))) = Cards
              /\ Len(GameOf(rooms[rid]).dealer.hand) >= 2
              /\ \A idx \in SeatIndexes(rooms[rid]) : Len(PlayerAt(rooms[rid], idx).hand) >= 2

\* a round of two seats ended after a player's hit and a dealer's draw
C11_Witness ==
    /\ Succeeded("player_action")
    /\ rooms[Asked].phase = "results"
    /\ Len(rooms[Asked].seats) = 2
    /\ Len(GameOf(rooms[Asked]).dealer.hand) >= 3
    /\ \E idx \in SeatIndexes(rooms[Asked]) : Len(PlayerAt(rooms[Asked], idx).hand) >= 3

\* C12: a get_state call, failed or not, leaves the room table as it was, and
\* a second get_state for the same room and viewer, made right after it,
\* returns the response the first one returned and again changes nothing.
C12_GetStateReadsOnly ==
    [][reply'.op = "get_state"
          => /\ rooms' = rooms
             /\ \A out \in get_state(rooms', AskedNext, reply'.request.player_id) :
                   out.response = reply' /\ out.new_rooms = rooms']_vars

\* a seated viewer read a round in which seat 0 has stood and seat 1 plays
C12_Witness ==
    /\ Succeeded("get_state")
    /\ rooms[Asked].phase = "player_turns"
    /\ SeatAt(rooms[Asked], 0).stood
    /\ find_player_index(rooms[Asked], reply.request.player_id) >= 0
    /\ Len(reply.body.players) = 2

\* a join_room call of thread t returns, having found room rid full
JoinFoundFull(t) ==
    /\ Returning(t)
    /\ call[t].op = "join_room"
    /\ Present(call[t].seen, call[t].room_id)
    /\ Len(call[t].seen[call[t].room_id].seats) >= call[t].seen[call[t].room_id].max_players

\* C13: with threads calling concurrently, no room ever has more seats than
\* its max_players, and a join_room that finds the room full fails and leaves
\* the room table as it found it, with the room-full error when the room is
\* waiting.
C13_SeatsWithinCap ==
    [][/\ SeatsWithinCap(rooms')
       /\ \A t \in Threads :
             JoinFoundFull(t)
                => /\ reply'.status = 400
                   /\ rooms' = call[t].seen
                   /\ call[t].seen[call[t].room_id].phase = "waiting"
                         => reply'.detail = "Room is full"]_vars

\* a join was refused by a waiting room whose two seats are taken
C13_Witness ==
    /\ reply.op = "join_room"
    /\ reply.detail = "Room is full"
    /\ Present(rooms, Asked)
    /\ Len(rooms[Asked].seats) = 2
    /\ rooms[Asked].max_players = 2
    /\ \A t \in Threads : ~Inside(t)

\* who sits where: the player_id and name of every seat, in order
RECURSIVE SeatedUpto(_, _)
SeatedUpto(room, k) ==
    IF k = 0 THEN <<>>
    ELSE Append(SeatedUpto(room, k - 1),
                <<room.seats[k].player_id, room.seats[k].name>>)

Seated(room) == SeatedUpto(room, Len(room.seats))

\* the game has one participant per seat, each carrying its seat's name
BoundToSeats(room) ==
    /\ Len(GameOf(room).players) = Len(room.seats)
    /\ GameOf(room).n_players = Len(room.seats)
    /\ \A idx \in SeatIndexes(room) : PlayerAt(room, idx).name = SeatAt(room, idx).name

\* what a join, start, action or read may do to the seats of room rid
SeatsKept(before, after) ==
    \/ Seated(after) = Seated(before)
    \/ /\ before.phase = "waiting"
       /\ after.phase = "waiting"
       /\ SucceededNext("join_room")
       /\ Len(after.seats) = Len(before.seats) + 1
       /\ SubSeq(Seated(after), 1, Len(before.seats)) = Seated(before)

\* C14: join_room, start_game, player_action and get_state leave the seats of
\* every room in place, except that a successful join appends one seat to a
\* waiting room; a room that is not waiting keeps the same seats, and the game
\* of a started room has one participant per seat, under the seat's name.
C14_SeatsAppendOnly ==
    [][reply'.op # "create_room"
          => /\ DOMAIN rooms' = DOMAIN rooms
             /\ \A rid \in DOMAIN rooms :
                   /\ SeatsKept(rooms[rid], rooms'[rid])
                   /\ rooms[rid].phase # "waiting" => Seated(rooms'[rid]) = Seated(rooms[rid])
                   /\ Started(rooms'[rid]) <=> rooms'[rid].phase # "waiting"
                   /\ Started(rooms'[rid]) => BoundToSeats(rooms'[rid])]_vars

\* ann and bob, seated in that order, are playing under their names
C14_Witness ==
    /\ Succeeded("player_action")
    /\ Len(rooms[Asked].seats) = 2
    /\ SeatAt(rooms[Asked], 0).name = "ann"
    /\ SeatAt(rooms[Asked], 1).name = "bob"
    /\ PlayerAt(rooms[Asked], 1).name = "bob"
    /\ SeatAt(rooms[Asked], 0).player_id # SeatAt(rooms[Asked], 1).player_id

\* the place of a phase on the way waiting -> player_turns -> dealer_turn -> results
PhaseRank(phase) ==
    CASE phase = "waiting" -> 0
      [] phase = "player_turns" -> 1
      [] phase = "dealer_turn" -> 2
      [] phase = "results" -> 3

\* C15: join_room, start_game, player_action and get_state never move a
\* room's phase backward along waiting, player_turns, dealer_turn, results;
\* a room in results stays exactly as it is, seats, hands, scores and results,
\* and every join_room, start_game and player_action on it fails.
C15_PhaseOnlyForward ==
    [][reply'.op # "create_room"
          => \A rid \in DOMAIN rooms :
                /\ Present(rooms', rid)
                /\ PhaseRank(rooms'[rid].phase) >= PhaseRank(rooms[rid].phase)
                /\ rooms[rid].phase = "results"
                      => /\ rooms'[rid] = rooms[rid]
                         /\ (reply'.op \in {"join_room", "start_game", "player_action"}
                             /\ AskedNext = rid) => reply'.status # 200]_vars

\* the host asked to start again a room that is in results
C15_Witness ==
    /\ reply.op = "start_game"
    /\ reply.detail = "Game already started"
    /\ rooms[Asked].phase = "results"
    /\ reply.request.player_id = rooms[Asked].host_id

\* the seat is neither the active turn of a room in player_turns nor resolved
OutOfSight(room, idx) ==
    /\ room.phase = "player_turns"
    /\ idx # room.current_player_index
    /\ ~SeatAt(room, idx).resolved

\* the view of seat idx shows its cards and score exactly when shown is TRUE
SeatShown(view, p, shown) ==
    /\ Len(view.cards) = Len(p.hand)
    /\ \A k \in 1..Len(view.cards) : view.cards[k].hidden = ~shown
    /\ view.score = IF shown THEN p.score ELSE "?"

\* C16: a get_state of a started room, for any viewer, hides a seat's cards
\* and shows its score as "?" exactly when the phase is player_turns and the
\* seat is neither the active turn nor resolved; in results it hides nothing.
C16_HiddenSeats ==
    [][(SucceededNext("get_state") /\ Started(rooms[AskedNext]))
          => /\ Len(reply'.body.players) = Len(rooms[AskedNext].seats)
             /\ \A idx \in SeatIndexes(rooms[AskedNext]) :
                   /\ SeatShown(reply'.body.players[idx + 1],
                                PlayerAt(rooms[AskedNext], idx),
                                ~OutOfSight(rooms[AskedNext], idx))
                   /\ rooms[AskedNext].phase = "results"
                         => SeatShown(reply'.body.players[idx + 1],
                                      PlayerAt(rooms[AskedNext], idx), TRUE)]_vars

\* while seat 0 plays, a read shows the cards of seat 1, resolved by its natural
C16_Witness ==
    /\ Succeeded("get_state")
    /\ rooms[Asked].phase = "player_turns"
    /\ rooms[Asked].current_player_index = 0
    /\ Len(rooms[Asked].seats) = 2
    /\ SeatAt(rooms[Asked], 1).resolved
    /\ ~reply.body.players[2].cards[1].hidden

\* the viewer's seat, the one find_player_index gives for its player_id, is
\* the active turn of a room in player_turns
OnTurn(room, pid) ==
    /\ room.phase = "player_turns"
    /\ \E idx \in SeatIndexes(room) :
          /\ SeatAt(room, idx).player_id = pid
          /\ \A before \in SeatIndexes(room) :
                before < idx => SeatAt(room, before).player_id # pid
          /\ idx = room.current_player_index

\* the action literals that read hit or stand once lowered and stripped
HitOrStand == {action \in ActionInputs : lower_strip(action) \in {"hit", "stand"}}

\* C17: in every state, for every room and viewer, get_state reports can_act
\* TRUE exactly when the viewer's seat is the active turn and the phase is
\* player_turns, and exactly then a hit or a stand by that viewer succeeds;
\* otherwise can_act is FALSE and the action fails.
C17_CanActMeansCanAct ==
    \A rid \in DOMAIN rooms :
        /\ \A pid \in Viewers :
              \A out \in get_state(rooms, rid, pid) :
                 out.response.body.can_act = OnTurn(rooms[rid], pid)
        /\ \A pid \in PlayerIds \cup {Stranger} :
              \A action \in HitOrStand :
                 \A out \in player_action(rooms, rid, pid, action) :
                    (out.response.status = 200) = OnTurn(rooms[rid], pid)

\* the player of seat 1 read the room on its turn and was told it can act
C17_Witness ==
    /\ Succeeded("get_state")
    /\ reply.body.can_act
    /\ reply.body.your_player_index = 1
    /\ rooms[Asked].current_player_index = 1
    /\ OnTurn(rooms[Asked], reply.request.player_id)

\* C18 as claimed: every successful create_room registers its room under a
\* room_id that no room of the table used, and leaves every room that was in
\* the table in it, unchanged.
C18_AsClaimed ==
    [][SucceededNext("create_room")
          => /\ reply'.body.room_id \notin DOMAIN rooms
             /\ \A rid \in DOMAIN rooms : Present(rooms', rid) /\ rooms'[rid] = rooms[rid]]_vars

\* C19: in a started room every seat whose two dealt cards are a natural (they
\* score 21, or are two Aces) is resolved, carries a non-empty result and still
\* holds just those two cards; while the phase is player_turns no other seat
\* is resolved, and the active seat is never a natural seat.
NaturalSeat(room, idx) == DealtNatural(PlayerAt(room, idx))

C19_NaturalsResolvedAtDeal ==
    \A rid \in DOMAIN rooms :
        Started(rooms[rid]) =>
            /\ \A idx \in SeatIndexes(rooms[rid]) :
                   /\ NaturalSeat(rooms[rid], idx)
                         => /\ SeatAt(rooms[rid], idx).resolved
                            /\ SeatAt(rooms[rid], idx).result # ""
                            /\ Len(PlayerAt(rooms[rid], idx).hand) = 2
                   /\ rooms[rid].phase = "player_turns"
                         => (SeatAt(rooms[rid], idx).resolved <=> NaturalSeat(rooms[rid], idx))
            /\ rooms[rid].phase = "player_turns"
                  => ~NaturalSeat(rooms[rid], rooms[rid].current_player_index)

\* A round was just started in which the second seat was dealt a natural and is
\* resolved at once, while the first seat, without one, has the turn.
C19_Witness ==
    /\ Succeeded("start_game")
    /\ \E rid \in DOMAIN rooms :
           /\ rooms[rid].phase = "player_turns"
           /\ Len(rooms[rid].seats) = 2
           /\ rooms[rid].current_player_index = 0
           /\ NaturalSeat(rooms[rid], 1)
           /\ SeatAt(rooms[rid], 1).resolved
           /\ ~SeatAt(rooms[rid], 0).resolved

\* C20: a start_game that succeeds and deals the dealer no natural leaves the
\* room either in player_turns, the turn on the lowest seat that is not
\* finished, or, when every seat was dealt a natural, in results with the
\* dealer played out and a result on every seat.
Unfinished(room) == {idx \in SeatIndexes(room) : ~SeatDone(room, idx)}

DealerPlayedOut(room) ==
    \/ Len(GameOf(room).dealer.hand) >= HandLimit
    \/ GameOf(room).dealer.score >= DealerThreshold

FirstTurn(room) ==
    IF Unfinished(room) # {}
    THEN /\ room.phase = "player_turns"
         /\ room.current_player_index = SetMin(Unfinished(room))
         /\ Len(GameOf(room).dealer.hand) = 2
    ELSE /\ room.phase = "results"
         /\ \A idx \in SeatIndexes(room) : NaturalSeat(room, idx)
         /\ DealerPlayedOut(room)
         /\ \A idx \in SeatIndexes(room) :
                SeatAt(room, idx).resolved /\ SeatAt(room, idx).result # ""

C20_FirstTurnAfterStart ==
    [][SucceededNext("start_game")
          => \A rid \in DOMAIN rooms' :
                 (rid = reply'.request.room_id /\ ~DealtNatural(GameOf(rooms'[rid]).dealer))
                     => FirstTurn(rooms'[rid])]_vars

\* A round was just started with no dealer natural in which the first seat was
\* dealt a natural, so that the turn opens on the second seat.
C20_Witness ==
    /\ Succeeded("start_game")
    /\ \E rid \in DOMAIN rooms :
           /\ rid = reply.request.room_id
           /\ ~DealtNatural(GameOf(rooms[rid]).dealer)
           /\ NaturalSeat(rooms[rid], 0)
           /\ rooms[rid].phase = "player_turns"
           /\ rooms[rid].current_player_index = 1

\* C21: the dealer draws only while settling the round: in every player_turns
\* state the dealer holds just its two dealt cards, and in every results state
\* it holds from 2 to 5 cards and either holds 5 or scores at least 15.
DealerHand(room) == GameOf(room).dealer.hand

C21_DealerDrawsOnlyToSettle ==
    \A rid \in DOMAIN rooms :
        Started(rooms[rid]) =>
            /\ rooms[rid].phase = "player_turns" => Len(DealerHand(rooms[rid])) = 2
            /\ rooms[rid].phase = "results"
                  => /\ Len(DealerHand(rooms[rid])) >= 2
                     /\ Len(DealerHand(rooms[rid])) <= HandLimit
                     /\ \/ Len(DealerHand(rooms[rid])) = HandLimit
                        \/ GameOf(rooms[rid]).dealer.score >= DealerThreshold

\* A player's last action has ended the round and the dealer, dealt less than
\* 15, has drawn two cards or more.
C21_Witness ==
    /\ Succeeded("player_action")
    /\ \E rid \in DOMAIN rooms :
           /\ rooms[rid].phase = "results"
           /\ Len(DealerHand(rooms[rid])) >= 4
           /\ calculate_score(SubSeq(DealerHand(rooms[rid]), 1, 2), TRUE) < DealerThreshold

\* C22: the phase dealer_turn is never seen outside the call that set it:
\* whenever no thread is inside a method (every start_game and player_action
\* has returned) each room's phase is waiting, player_turns or results, and
\* so is the phase in every get_state response.
VisiblePhases == {"waiting", "player_turns", "results"}

C22_DealerTurnNeverSeen ==
    /\ lock = Free => \A rid \in DOMAIN rooms : rooms[rid].phase \in VisiblePhases
    /\ \A t \in Threads :
           (pc[t] = "exit" /\ call[t].op = "get_state" /\ call[t].resp.status = 200)
               => call[t].resp.body.phase \in VisiblePhases
    /\ (reply.op = "get_state" /\ reply.status = 200) => reply.body.phase \in VisiblePhases

\* A get_state has returned the phase results of a round that a player's stand
\* brought to the dealer's turn.
C22_Witness ==
    /\ lock = Free
    /\ reply.op = "get_state"
    /\ reply.status = 200
    /\ reply.body.phase = "results"
    /\ \A i \in 1..Len(rooms[reply.request.room_id].seats) :
           rooms[reply.request.room_id].seats[i].stood

\* C23: every started round terminates.  The cards a seat has drawn plus its
\* stand count the successful actions it has made: the count is 0 at the deal,
\* a successful player_action adds exactly one to the active seat's and no
\* other step changes any, and no seat's count exceeds 3, so a room of n seats
\* takes at most 3n actions; the dealer draws at most 3 cards; and when the
\* active player always eventually acts, a room in player_turns eventually
\* leaves it (for results, unless create_room has replaced the room).
ActionsTaken(room, idx) ==
    Len(PlayerAt(room, idx).hand) - 2 + (IF SeatAt(room, idx).stood THEN 1 ELSE 0)

MaxActions == HandLimit - 2

RECURSIVE ActionsUpto(_, _)
ActionsUpto(room, n) ==
    IF n = 0 THEN 0 ELSE ActionsUpto(room, n - 1) + ActionsTaken(room, n - 1)

ActionsBounded ==
    \A rid \in DOMAIN rooms :
        Started(rooms[rid]) =>
            /\ \A idx \in SeatIndexes(rooms[rid]) :
                   /\ ActionsTaken(rooms[rid], idx) >= 0
                   /\ ActionsTaken(rooms[rid], idx) <= MaxActions
            /\ ActionsUpto(rooms[rid], Len(rooms[rid].seats))
                   <= MaxActions * Len(rooms[rid].seats)
            /\ Len(DealerHand(rooms[rid])) - 2 <= MaxActions

ActionsCounted ==
    \A rid \in DOMAIN rooms' :
        Started(rooms'[rid]) =>
            IF SucceededNext("start_game") /\ rid = reply'.request.room_id
            THEN \A idx \in SeatIndexes(rooms'[rid]) : ActionsTaken(rooms'[rid], idx) = 0
            ELSE /\ Present(rooms, rid)
                 /\ Started(rooms[rid])
                 /\ Len(rooms'[rid].seats) = Len(rooms[rid].seats)
                 /\ \A idx \in SeatIndexes(rooms[rid]) :
                        ActionsTaken(rooms'[rid], idx)
                           = ActionsTaken(rooms[rid], idx)
                                + (IF /\ SucceededNext("player_action")
                                      /\ rid = reply'.request.room_id
                                      /\ idx = rooms[rid].current_player_index
                                   THEN 1 ELSE 0)

C23_RoundTerminates ==
    /\ []ActionsBounded
    /\ [][ActionsCounted]_vars
    /\ \A rid \in RoomIds : InTurns(rid) ~> ~InTurns(rid)

\* A round of two seats has ended after one seat took the three actions a seat
\* can take and the other took one.
C23_Witness ==
    \E rid \in DOMAIN rooms :
        /\ rooms[rid].phase = "results"
        /\ Len(rooms[rid].seats) = 2
        /\ \E idx \in SeatIndexes(rooms[rid]) : ActionsTaken(rooms[rid], idx) = MaxActions
        /\ ActionsUpto(rooms[rid], 2) >= MaxActions + 1

\* C24: the result of a seat resolved as a natural at the deal is final: in
\* every state of the round it is the string check_player gives against the
\* dealer's two dealt cards, whatever the dealer has drawn since, and no step
\* of the round changes it.
DealtDealer(room) ==
    [GameOf(room).dealer EXCEPT
        !.hand = SubSeq(DealerHand(room), 1, 2),
        !.score = calculate_score(SubSeq(DealerHand(room), 1, 2), TRUE)]

ResultAtDeal(room, idx) == evaluate_winner(PlayerAt(room, idx), DealtDealer(room))

NaturalResultsAsDealt ==
    \A rid \in DOMAIN rooms :
        Started(rooms[rid]) =>
            \A idx \in SeatIndexes(rooms[rid]) :
                NaturalSeat(rooms[rid], idx)
                    => /\ SeatAt(rooms[rid], idx).result = ResultAtDeal(rooms[rid], idx)
                       /\ PlayerAt(rooms[rid], idx).result = ResultAtDeal(rooms[rid], idx)

NaturalResultsKept ==
    \A rid \in DOMAIN rooms :
        (Started(rooms[rid]) /\ Present(rooms', rid) /\ Started(rooms'[rid]))
            => \A idx \in SeatIndexes(rooms[rid]) :
                   NaturalSeat(rooms[rid], idx)
                       => SeatAt(rooms'[rid], idx).result = SeatAt(rooms[rid], idx).result

C24_NaturalResultIsFinal == []NaturalResultsAsDealt /\ [][NaturalResultsKept]_vars

\* A round has ended in which the first seat was dealt a blackjack and the
\* dealer, dealt no natural, drew to 21: the seat still wins with its blackjack.
C24_Witness ==
    \E rid \in DOMAIN rooms :
        /\ rooms[rid].phase = "results"
        /\ NaturalSeat(rooms[rid], 0)
        /\ Len(DealerHand(rooms[rid])) >= 3
        /\ GameOf(rooms[rid]).dealer.score = BustLimit
        /\ SeatAt(rooms[rid], 0).result = "Player wins with Blackjack"

\* C25: while the phase is player_turns get_state shows nothing of the
\* dealer's hand or of the deck: for every viewer the response is the one
\* get_state would build had the dealer been dealt any other two cards that
\* are not a natural and the deck held the remaining cards in another order,
\* the naturals having been resolved against that other dealer.
ConcealRanks == {"A", "K", "9", "5"}

ConcealSuits == {"Hearts", "Diamonds"}

PlayersCards(room) == SeqRange(HandsUpto(GameOf(room), Len(GameOf(room).players)))

\* the pairs of cards the dealer could hold instead, the players' hands being
\* what they are
OtherDealerHands(room) ==
    LET free == {c \in Cards \ PlayersCards(room) :
                    CardRank(c) \in ConcealRanks /\ CardSuit(c) \in ConcealSuits}
    IN  {h \in free \X free :
            /\ h[1] # h[2]
            /\ calculate_score(h, TRUE) # BustLimit
            /\ ~(CardRank(h[1]) = "A" /\ CardRank(h[2]) = "A")}

\* the room as start_game would have left it with the dealer holding h
Retold(room, h) ==
    LET g == GameOf(room)
        held == PlayersCards(room) \cup SeqRange(h)
        InDeck(c) == c \notin held
        other == [g EXCEPT !.dealer = [g.dealer EXCEPT
                                          !.hand = h,
                                          !.score = calculate_score(h, TRUE)],
                           !.deck = SelectSeq([i \in 1..NumCards |-> i - 1], InDeck)]
    IN  resolve_initial_naturals(SetGame(room, other))

C25_DealerConcealed ==
    \A rid \in DOMAIN rooms :
        rooms[rid].phase = "player_turns"
            => \A h \in OtherDealerHands(rooms[rid]) :
                   LET told == Retold(rooms[rid], h)
                   IN  \A pid \in Viewers :
                           get_state_view(told, pid) = get_state_view(rooms[rid], pid)

\* A viewer has read a room in player_turns that has a seat resolved by a
\* natural, and the dealer could hold other cards than it does.
C25_Witness ==
    /\ Succeeded("get_state")
    /\ reply.body.phase = "player_turns"
    /\ reply.body.dealer.score = "?"
    /\ \E i \in 1..Len(reply.body.players) : reply.body.players[i].resolved
    /\ \E h \in OtherDealerHands(rooms[reply.request.room_id]) :
           h # DealerHand(rooms[reply.request.room_id])

\* C26: the floor of a role never changes a score: for every hand of up to 5
\* cards calculate_score gives the same value for the dealer (floor 15) as for
\* a player (floor 16), which is the greatest total over the assignments of
\* the Aces that does not exceed 21 when there is one and the least total
\* otherwise; it is the score add_card stored.
FloorlessScore(h) ==
    LET unbusted == {t \in RefTotals(h) : t <= BustLimit}
    IN  IF unbusted # {} THEN SetMax(unbusted) ELSE SetMin(RefTotals(h))

C26_FloorNeverMatters ==
    Len(bench.hand) >= 1 =>
        /\ calculate_score(bench.hand, TRUE) = calculate_score(bench.hand, FALSE)
        /\ calculate_score(bench.hand, TRUE) = FloorlessScore(bench.hand)
        /\ bench.score = FloorlessScore(bench.hand)

\* a player's hand with an Ace that counts to 15, between the two floors, and
\* to nothing from 16 to 21
C26_Witness ==
    /\ ~bench.is_dealer
    /\ \E i \in 1..Len(bench.hand) : CardRank(bench.hand[i]) = "A"
    /\ bench.score = DealerThreshold
    /\ DealerThreshold \in RefTotals(bench.hand)
    /\ \A t \in RefTotals(bench.hand) : t < PlayerThreshold \/ t > BustLimit

====
